---- MODULE Spec2Model ----
(***************************************************************************)
(* GradingSetupService (backend/grading_setup.py) against a Canvas course. *)
(*                                                                         *)
(* Weights are fixed-point numbers in hundredths of a percent: 100 % is    *)
(* 10000 and the 0.01 tolerance is 1.  The service runs one operation at a  *)
(* time; every HTTP request it sends is one step, whose outcome is chosen  *)
(* by the LMS: "ok" (a success status), "bad" (any other status) or "exc"  *)
(* (requests raised: the request was never delivered).                     *)
(*                                                                         *)
(* SpecRace runs two setup calls for one course at once.  SpecCalc applies *)
(* the operations of GradeCalculator (backend/services/grade_calculator.py)*)
(* to calls drawn from small sets of assignments and categories.           *)
(***************************************************************************)
EXTENDS Integers, Sequences, FiniteSets, TLC

\* ---------------------------------------------------------------- bounds
MaxInitGroups == 5      \* groups a course may hold before the first operation
MaxBase == 1            \* groups a course may hold when setup is called
MaxCats == 2            \* categories passed to one setup call
MaxAssign == 1          \* assignments of the course
MaxItems == 3           \* assignments passed to calculate_category_score
MaxDrop == 2            \* largest drop_lowest / drop_highest passed
MaxPointsItems == 2     \* assignments passed to calculate_points_grade
MaxCalcCats == 2        \* categories passed to calculate_weighted_grade
MaxCatItems == 1        \* assignments of one such category

\* ------------------------------------------------------ program constants
Target == 10000         \* the 100 of abs(total_weight - 100)
Tolerance == 1          \* the 0.01 of abs(total_weight - 100) > 0.01
Hundredths == 10000     \* a ratio as a percentage with two decimals
None == -1              \* a field that is None

InitWeights == {1000, 2500}
CatWeights == {0, 9999, 10000}
Outcomes == {"ok", "bad", "exc"}
RuleInputs == {"none", "empty", "on"}

VARIABLES
    groups,        \* LMS: the course's assignment groups, <<[id, w]>>
    nextId,        \* LMS: id the next created group gets
    weighted,      \* LMS: course.apply_assignment_group_weights
    assignments,   \* LMS: assignment_group_id of every assignment (0: none)
    op,            \* operation in progress
    pc,            \* position inside it
    cats,          \* setup: the weights of the categories passed
    rules,         \* setup: the global rules passed
    idx,           \* loop index of the create / delete / update loop
    created,       \* setup: created_groups, as the ids returned
    analysis,      \* analysis being built, or returned to fix_existing_setup
    log,           \* requests sent by the operation, in order
    result,        \* what the operation returned (or raised)
    lms0,          \* LMS state when the operation began
    hist,          \* summaries of the operations completed before
    callers,       \* concurrent setup calls: each caller's position and locals
    calc           \* GradeCalculator: the call made and what it returned

vars == <<groups, nextId, weighted, assignments, op, pc, cats, rules,
          idx, created, analysis, log, result, lms0, hist, callers, calc>>

lmsVars == <<groups, nextId, weighted, assignments>>

\* What one call of the service works on.
serviceVars == <<op, pc, cats, rules, idx, created, analysis, log, result,
                 lms0, hist>>

\* What the service, called by one caller at a time, never looks at.
otherVars == <<callers, calc>>

NoCallers == <<>>
NoCalc == [fn |-> "none"]

\* ------------------------------------------------------------- arithmetic
Abs(x) == IF x < 0 THEN -x ELSE x

RECURSIVE SumWeights(_)
SumWeights(gs) ==
    IF gs = <<>> THEN 0 ELSE gs[1].w + SumWeights(Tail(gs))

RECURSIVE SumSeq(_)
SumSeq(s) == IF s = <<>> THEN 0 ELSE s[1] + SumSeq(Tail(s))

\* abs(total - 100) > 0.01 on a float sum.  A sum that is 0.01 away from 100
\* compares either way, depending on the rounding of the additions
\* (33.33 + 33.33 + 33.33 is "off", 33.33 + 33.34 + 33.34 may not be): fp is
\* that outcome.
OffTarget(total, fp) ==
    \/ Abs(total - Target) > Tolerance
    \/ Abs(total - Target) = Tolerance /\ fp

\* The same test on round(total, 2): the float nearest to 99.99 or 100.01 is
\* more than 0.01 away from 100.0, so the boundary always counts as off.
OffTargetRounded(total) == Abs(total - Target) >= Tolerance

\* round(w * (100 / total), 2); an exact tie falls either way (tieUp).
NewWeight(w, total, tieUp) ==
    LET q == (w * Target) \div total
        r == (w * Target) % total
    IN  IF 2 * r > total \/ (2 * r = total /\ tieUp) THEN q + 1 ELSE q

\* ------------------------------------------------------------ LMS state
Lms == [groups |-> groups, weighted |-> weighted, assignments |-> assignments]

\* Initially only the course's first group may hold assignments.
FirstId(gs) == IF gs = <<>> THEN {} ELSE {gs[1].id}

NonDecreasing(s) == \A i \in 1..Len(s) - 1 : s[i] <= s[i + 1]

SortedSeqs(S, n) ==
    UNION {{s \in [1..k -> S] : NonDecreasing(s)} : k \in 0..n}

Call(c, a, wt, o) == [call |-> c, arg |-> a, w |-> wt, out |-> o]

NoResult == [status |-> "none", msg |-> "", n |-> 0,
             total |-> 0, verified |-> FALSE]

Returned(status, msg, n) ==
    [status |-> status, msg |-> msg, n |-> n, total |-> 0, verified |-> FALSE]

NoAnalysis ==
    [failed |-> FALSE, groups |-> <<>>, enabled |-> FALSE, total |-> 0,
     orphans |-> 0, empty |-> 0, issues |-> <<>>, suggestions |-> <<>>,
     health |-> ""]

\* Courses whose groups were never given a weight: group_weight is 0 in
\* every group.
Unweighted(n) == {[i \in 1..k |-> 0] : k \in 1..n}

Init ==
    /\ \E ws \in SortedSeqs(InitWeights, MaxInitGroups)
                   \cup Unweighted(MaxInitGroups) :
          groups = [i \in 1..Len(ws) |-> [id |-> i, w |-> ws[i]]]
    /\ nextId = Len(groups) + 1
    /\ weighted \in BOOLEAN
    /\ assignments \in SortedSeqs({0} \cup FirstId(groups), MaxAssign)
    /\ op = "idle"
    /\ pc = "idle"
    /\ cats = <<>>
    /\ rules = "none"
    /\ idx = 0
    /\ created = <<>>
    /\ analysis = NoAnalysis
    /\ log = <<>>
    /\ result = NoResult
    /\ lms0 = Lms
    /\ hist = <<>>
    /\ callers = NoCallers
    /\ calc = NoCalc

\* --------------------------------------------------- setup_weighted_grading
\* WeightsRejected without the abs(): totals below 100 pass.
WeightsRejectedNoAbs(cs, fp) == SumSeq(cs) - Target > Tolerance

\* grading_setup.py:76-81: the weights must total 100 within 0.01.
WeightsRejected(cs, fp) == OffTarget(SumSeq(cs), fp)

\* SetupFailed without the try/except: the exception leaves setup.
SetupFailedRaises(msg) == Returned("raised", msg, 0)

\* What an exception caught at grading_setup.py:116 is turned into.
SetupFailed(msg) == Returned("error", msg, 0)

\* apply_global_rules sends a request only if a policy is enabled in `rules`.
RulesRequest(r) == r = "on"

\* The service's life cycle: setup, then analyze, then fix, each optional.
Rank(o) == CASE o = "setup" -> 1 [] o = "analyze" -> 2 [] OTHER -> 3

Begin(o) ==
    /\ op = "idle"
    /\ IF hist = <<>> THEN TRUE ELSE Rank(hist[Len(hist)].op) < Rank(o)
    /\ op' = o
    /\ lms0' = Lms
    /\ log' = <<>>

StartSetup ==
    \E cs \in UNION {[1..k -> CatWeights] : k \in 0..MaxCats},
       r \in RuleInputs, fp \in BOOLEAN :
        /\ Begin("setup")
        /\ Len(groups) <= MaxBase
        /\ cats' = cs
        /\ rules' = r
        /\ created' = <<>>
        /\ IF WeightsRejected(cs, fp)
             THEN /\ pc' = "done"
                  /\ result' = SetupFailed("weights_total")
                  /\ idx' = 0
             ELSE /\ pc' = "create"
                  /\ result' = NoResult
                  /\ idx' = 1
        /\ UNCHANGED <<lmsVars, analysis, hist>>
        /\ UNCHANGED otherVars

\* The message of the exception a failed request ends up as: the service's
\* own "Failed to ..." text for a non-success status, the text of the
\* exception requests raised otherwise.
FailureMsg(step, o) == IF o = "bad" THEN step ELSE "transport"

\* CreateStep leaving the loop after the first group.
CreateStepEnableFirst(o, i, n) == IF o # "ok" THEN "done" ELSE "enable"

\* CreateStep not looking at the response status.
CreateStepIgnoringFailure(o, i, n) == IF i = n THEN "enable" ELSE "create"

\* Where the create loop (grading_setup.py:85-93) goes after the request for
\* category i of n: a failure raises out of the loop.
CreateStep(o, i, n) ==
    IF o # "ok" THEN "done" ELSE IF i = n THEN "enable" ELSE "create"

\* The steps that follow the create loop (grading_setup.py:95-105).
NextStep(step, r) ==
    CASE step = "enable" -> IF RulesRequest(r) THEN "rules" ELSE "verify"
      [] step = "rules"  -> "verify"
      [] OTHER           -> "done"

\* Sent with every request going out as a weight update.
SentAsUpdate(c, a, wt, o) == log' = Append(log, Call("update", a, wt, o))

\* The request goes out and gets its answer.
Sent(c, a, wt, o) == log' = Append(log, Call(c, a, wt, o))

\* POST .../assignment_groups  (create_assignment_group)
SetupCreate ==
    \E o \in Outcomes :
        /\ op = "setup" /\ pc = "create"
        /\ Sent("create", idx, cats[idx], o)
        /\ pc' = CreateStep(o, idx, Len(cats))
        /\ idx' = idx + 1
        /\ IF o = "ok"
             THEN /\ groups' = Append(groups, [id |-> nextId, w |-> cats[idx]])
                  /\ nextId' = nextId + 1
                  /\ created' = Append(created, nextId)
             ELSE UNCHANGED <<groups, nextId, created>>
        /\ result' = IF pc' = "done"
                       THEN SetupFailed(FailureMsg("create_failed", o))
                       ELSE result
        /\ UNCHANGED <<weighted, assignments, op, cats, rules,
                       analysis, lms0, hist>>
        /\ UNCHANGED otherVars

\* PUT .../courses/:id  (enable_weighted_grading)
SetupEnable ==
    \E o \in Outcomes :
        /\ op = "setup" /\ pc = "enable"
        /\ Sent("enable", 0, 0, o)
        /\ IF o = "ok"
             THEN /\ weighted' = TRUE
                  /\ pc' = NextStep("enable", rules)
                  /\ result' = result
             ELSE /\ weighted' = weighted
                  /\ pc' = "done"
                  /\ result' = SetupFailed(FailureMsg("enable_failed", o))
        /\ UNCHANGED <<groups, nextId, assignments, op, cats, rules,
                       idx, created, analysis, lms0, hist>>
        /\ UNCHANGED otherVars

\* PUT .../courses/:id/settings  (apply_global_rules)
SetupRules ==
    \E o \in Outcomes :
        /\ op = "setup" /\ pc = "rules"
        /\ Sent("rules", 0, 0, o)
        /\ IF o = "ok"
             THEN /\ pc' = NextStep("rules", rules)
                  /\ result' = result
             ELSE /\ pc' = "done"
                  /\ result' = SetupFailed(FailureMsg("rules_failed", o))
        /\ UNCHANGED <<lmsVars, op, cats, rules, idx, created, analysis,
                       lms0, hist>>
        /\ UNCHANGED otherVars

\* verify_grading_setup: total weight of the groups fetched.
Verification(gs, fp) ==
    [count |-> Len(gs), total |-> SumWeights(gs),
     verified |-> ~OffTarget(SumWeights(gs), fp)]

\* GET .../assignment_groups  (verify_grading_setup), then the return at
\* grading_setup.py:108-114.
SetupVerify ==
    \E o \in Outcomes, fp \in BOOLEAN :
        /\ op = "setup" /\ pc = "verify"
        /\ Sent("get_groups", 0, 0, o)
        /\ pc' = "done"
        /\ result' =
             IF o = "ok"
               THEN [status |-> "success", msg |-> "", n |-> Len(created),
                     total |-> Verification(groups, fp).total,
                     verified |-> Verification(groups, fp).verified]
               ELSE SetupFailed(FailureMsg("verify_failed", o))
        /\ UNCHANGED <<lmsVars, op, cats, rules, idx, created, analysis,
                       lms0, hist>>
        /\ UNCHANGED otherVars

\* --------------------------------------------------- analyze_existing_setup
\* grading_setup.py:343: the weight total is looked at only with weighted
\* grading enabled.
WeightCheckRuns(en) == en

Issue(k, n) == [kind |-> k, n |-> n]

\* grading_setup.py:355: assignments whose assignment_group_id is empty.
OrphanCount(as) == Cardinality({i \in 1..Len(as) : as[i] = 0})

\* EmptyCount finding every group in use.
EmptyCountNone(gs, as) == 0

\* grading_setup.py:362: groups no assignment points to.
EmptyCount(gs, as) ==
    Cardinality({k \in 1..Len(gs) : \A i \in 1..Len(as) : as[i] # gs[k].id})

\* Health reporting every course as fine.
HealthAlwaysHealthy(issues) == "healthy"

\* grading_setup.py:377.
Health(issues) == IF issues = <<>> THEN "healthy" ELSE "needs_attention"

\* grading_setup.py:329-378, on the groups, course flag and assignments fetched.
Analyze(gs, en, as, fp) ==
    LET total  == SumWeights(gs)
        orph   == OrphanCount(as)
        empt   == EmptyCount(gs, as)
        off    == WeightCheckRuns(en) /\ OffTarget(total, fp)
        issues ==
            (IF ~en /\ Len(gs) > 1 THEN <<Issue("weighting_off", 0)>> ELSE <<>>)
            \o (IF off THEN <<Issue("weight_total", total)>> ELSE <<>>)
            \o (IF orph > 0 THEN <<Issue("orphans", orph)>> ELSE <<>>)
            \o (IF empt > 0 THEN <<Issue("empty_groups", empt)>> ELSE <<>>)
        suggestions ==
            (IF ~en /\ Len(gs) > 1 THEN <<Issue("enable_weighting", 0)>> ELSE <<>>)
            \o (IF off
                  THEN IF total < Target
                         THEN <<Issue("add", Target - total)>>
                         ELSE <<Issue("reduce", total - Target)>>
                  ELSE <<>>)
            \o (IF orph > 0 THEN <<Issue("move_orphans", 0)>> ELSE <<>>)
            \o (IF empt > 0 THEN <<Issue("remove_empty", 0)>> ELSE <<>>)
    IN  [failed |-> FALSE, groups |-> gs, enabled |-> en, total |-> total,
         orphans |-> orph, empty |-> empt, issues |-> issues,
         suggestions |-> suggestions,
         health |-> Health(issues)]

\* The error dict of grading_setup.py:380-385, as fix_existing_setup reads it
\* with analysis.get(..., default).
FailedAnalysis == [NoAnalysis EXCEPT !.failed = TRUE]

\* What a non-200 answer to a fetch is replaced by (grading_setup.py:317-327).
Fetched(o, value, default) == IF o = "ok" THEN value ELSE default

Raised(msg) == Returned("raised", msg, 0)
Continue(p) == [pc |-> p, result |-> NoResult]
Finished(r) == [pc |-> "done", result |-> r]

\* fix "auto" once the weights are dealt with (grading_setup.py:432-440).
AfterUpdates(a) ==
    IF ~a.enabled /\ Len(a.groups) > 1
      THEN Continue("fix_enable")
      ELSE Finished(Returned("success", "", Len(a.groups)))

\* fix "reset" once every group was asked to be deleted (grading_setup.py:408).
AfterDeletes(a) == Finished(Returned("success", "", Len(a.groups)))

\* What the operation does with the analysis it now has.
Plan(o, a) ==
    CASE o = "analyze" ->
           IF a.failed THEN Finished(Returned("error", "transport", 0))
                       ELSE Finished(Returned("analysis", "", 0))
      [] o = "fix_reset" ->
           IF a.groups = <<>> THEN AfterDeletes(a) ELSE Continue("delete")
      [] OTHER ->
           IF OffTargetRounded(a.total) /\ Len(a.groups) > 0
             THEN IF a.total = 0 THEN Finished(Raised("zero_division"))
                                 ELSE Continue("update")
             ELSE AfterUpdates(a)

Analysing == op \in {"analyze", "fix_auto", "fix_reset"}

StartAnalyze ==
    /\ Begin("analyze")
    /\ pc' = "get_groups"
    /\ result' = NoResult
    /\ analysis' = NoAnalysis
    /\ UNCHANGED <<lmsVars, cats, rules, idx, created, hist>>
    /\ UNCHANGED otherVars

StartFix ==
    \E t \in {"fix_auto", "fix_reset"} :
        /\ Begin(t)
        /\ pc' = "get_groups"
        /\ result' = NoResult
        /\ analysis' = NoAnalysis
        /\ UNCHANGED <<lmsVars, cats, rules, idx, created, hist>>
        /\ UNCHANGED otherVars

\* The analysis is complete (or has failed): go where Plan says.
Proceed(a) ==
    /\ analysis' = a
    /\ pc' = Plan(op, a).pc
    /\ result' = Plan(op, a).result
    /\ idx' = 1

\* GET .../assignment_groups
FetchGroups ==
    \E o \in Outcomes :
        /\ Analysing /\ pc = "get_groups"
        /\ Sent("get_groups", 0, 0, o)
        /\ IF o = "exc"
             THEN Proceed(FailedAnalysis)
             ELSE /\ analysis' = [analysis EXCEPT
                                    !.groups = Fetched(o, groups, <<>>)]
                  /\ pc' = "get_course"
                  /\ UNCHANGED <<result, idx>>
        /\ UNCHANGED <<lmsVars, op, cats, rules, created, lms0, hist>>
        /\ UNCHANGED otherVars

\* GET .../courses/:id
FetchCourse ==
    \E o \in Outcomes :
        /\ Analysing /\ pc = "get_course"
        /\ Sent("get_course", 0, 0, o)
        /\ IF o = "exc"
             THEN Proceed(FailedAnalysis)
             ELSE /\ analysis' = [analysis EXCEPT
                                    !.enabled = Fetched(o, weighted, FALSE)]
                  /\ pc' = "get_assignments"
                  /\ UNCHANGED <<result, idx>>
        /\ UNCHANGED <<lmsVars, op, cats, rules, created, lms0, hist>>
        /\ UNCHANGED otherVars

\* GET .../assignments, then the checks
FetchAssignments ==
    \E o \in Outcomes, fp \in BOOLEAN :
        /\ Analysing /\ pc = "get_assignments"
        /\ Sent("get_assignments", 0, 0, o)
        /\ IF o = "exc"
             THEN Proceed(FailedAnalysis)
             ELSE Proceed(Analyze(analysis.groups, analysis.enabled,
                                  Fetched(o, assignments, <<>>), fp))
        /\ UNCHANGED <<lmsVars, op, cats, rules, created, lms0, hist>>
        /\ UNCHANGED otherVars

\* ------------------------------------------------------- fix_existing_setup
\* The LMS after DELETE .../assignment_groups/:id: the group is gone, and so
\* are the assignments it held (no move_assignments_to is sent).
WithoutGroup(gs, id) == SelectSeq(gs, LAMBDA g : g.id # id)
WithoutAssignmentsOf(as, id) == SelectSeq(as, LAMBDA a : a # id)

\* WithWeight where the update removes the group.
WithWeightRemoving(gs, id, nw) == SelectSeq(gs, LAMBDA g : g.id # id)

\* The LMS after PUT .../assignment_groups/:id {group_weight}.
WithWeight(gs, id, nw) ==
    [i \in 1..Len(gs) |-> IF gs[i].id = id THEN [gs[i] EXCEPT !.w = nw] ELSE gs[i]]

\* delete_assignment_group returns False for a non-success status and the
\* loop at grading_setup.py:405-406 does not look at it.
DeleteStep(o, i, a) ==
    IF o = "exc" THEN Finished(Raised("transport"))
    ELSE IF i = Len(a.groups) THEN AfterDeletes(a)
    ELSE Continue("delete")

FixDelete ==
    \E o \in Outcomes :
        LET g == analysis.groups[idx] IN
        /\ op = "fix_reset" /\ pc = "delete"
        /\ Sent("delete", g.id, 0, o)
        /\ pc' = DeleteStep(o, idx, analysis).pc
        /\ result' = DeleteStep(o, idx, analysis).result
        /\ idx' = idx + 1
        /\ IF o = "ok"
             THEN /\ groups' = WithoutGroup(groups, g.id)
                  /\ assignments' = WithoutAssignmentsOf(assignments, g.id)
             ELSE UNCHANGED <<groups, assignments>>
        /\ UNCHANGED <<nextId, weighted, op, cats, rules, created, analysis,
                       lms0, hist>>
        /\ UNCHANGED otherVars

\* update_assignment_group_weight raises for a non-success status and
\* fix_existing_setup catches nothing.
UpdateStep(o, i, a) ==
    IF o # "ok" THEN Finished(Raised(FailureMsg("update_failed", o)))
    ELSE IF i = Len(a.groups) THEN AfterUpdates(a)
    ELSE Continue("update")

FixUpdate ==
    \E o \in Outcomes, tieUp \in BOOLEAN :
        LET g  == analysis.groups[idx]
            nw == NewWeight(g.w, analysis.total, tieUp)
        IN
        /\ op = "fix_auto" /\ pc = "update"
        /\ Sent("update", g.id, nw, o)
        /\ pc' = UpdateStep(o, idx, analysis).pc
        /\ result' = UpdateStep(o, idx, analysis).result
        /\ idx' = idx + 1
        /\ groups' = IF o = "ok" THEN WithWeight(groups, g.id, nw) ELSE groups
        /\ UNCHANGED <<nextId, weighted, assignments, op, cats, rules, created,
                       analysis, lms0, hist>>
        /\ UNCHANGED otherVars

FixEnable ==
    \E o \in Outcomes :
        /\ op = "fix_auto" /\ pc = "fix_enable"
        /\ Sent("enable", 0, 0, o)
        /\ pc' = "done"
        /\ weighted' = (weighted \/ o = "ok")
        /\ result' = IF o = "ok"
                       THEN Returned("success", "", Len(analysis.groups))
                       ELSE Raised(FailureMsg("enable_failed", o))
        /\ UNCHANGED <<groups, nextId, assignments, op, cats, rules, idx,
                       created, analysis, lms0, hist>>
        /\ UNCHANGED otherVars

\* ------------------------------------------------------- between operations
Summary ==
    [op |-> op, success |-> result.status = "success",
     partial |-> pc = "done" /\ created # <<>> /\ Len(created) < Len(cats),
     fresh |-> lms0.groups = <<>> /\ lms0.assignments = <<>>]

\* The operation has returned (or raised) and the caller has its result.
Return ==
    /\ pc = "done"
    /\ op' = "idle"
    /\ pc' = "idle"
    /\ hist' = Append(hist, Summary)
    /\ cats' = <<>>
    /\ rules' = "none"
    /\ idx' = 0
    /\ created' = <<>>
    /\ analysis' = NoAnalysis
    /\ log' = <<>>
    /\ result' = NoResult
    /\ lms0' = Lms
    /\ UNCHANGED lmsVars
    /\ UNCHANGED otherVars

Next ==
    \/ StartSetup
    \/ SetupCreate
    \/ SetupEnable
    \/ SetupRules
    \/ SetupVerify
    \/ StartAnalyze
    \/ StartFix
    \/ FetchGroups
    \/ FetchCourse
    \/ FetchAssignments
    \/ FixDelete
    \/ FixUpdate
    \/ FixEnable
    \/ Return

Spec == Init /\ [][Next]_vars

\* ------------------------------------------- concurrent setup_weighted_grading
\* Two callers (two requests, served by different workers or servers) run
\* setup_weighted_grading for the same course.  The service holds no lock
\* and keeps no state of its own between requests, so their LMS requests
\* interleave request by request; each caller runs the steps of
\* grading_setup.py:83-114 on its own locals.
RaceCallers == {1, 2}
RaceWeights == {4000, 6000, 10000}

\* Category lists that pass the validation of grading_setup.py:76-81.
ValidCats ==
    {cs \in UNION {[1..k -> RaceWeights] : k \in 1..MaxCats} :
        ~WeightsRejected(cs, TRUE) /\ ~WeightsRejected(cs, FALSE)}

\* A caller past the validation, about to create its first group.
Caller(cs, r) ==
    [pc |-> "create", cats |-> cs, rules |-> r, idx |-> 1, created |-> <<>>,
     result |-> NoResult]

ServiceIdle ==
    /\ op = "idle"
    /\ pc = "idle"
    /\ cats = <<>>
    /\ rules = "none"
    /\ idx = 0
    /\ created = <<>>
    /\ analysis = NoAnalysis
    /\ log = <<>>
    /\ result = NoResult
    /\ lms0 = Lms
    /\ hist = <<>>

InitRace ==
    /\ groups = <<>>
    /\ nextId = 1
    /\ weighted = FALSE
    /\ assignments = <<>>
    /\ ServiceIdle
    /\ \E cs \in [RaceCallers -> ValidCats], rs \in [RaceCallers -> RuleInputs] :
          callers = [local  |-> [c \in RaceCallers |-> Caller(cs[c], rs[c])],
                     writes |-> <<>>]
    /\ calc = NoCalc

\* Caller c's locals become me; wrote says whether its request changed the
\* LMS.
Step(c, me, wrote) ==
    callers' =
        [local  |-> [callers.local EXCEPT ![c] = me],
         writes |-> IF wrote THEN Append(callers.writes, c) ELSE callers.writes]

\* POST .../assignment_groups by one of the callers.
RaceCreate ==
    \E c \in RaceCallers, o \in Outcomes :
        LET me == callers.local[c]
            p  == CreateStep(o, me.idx, Len(me.cats))
        IN
        /\ me.pc = "create"
        /\ Step(c, [me EXCEPT
                      !.pc = p,
                      !.idx = me.idx + 1,
                      !.created = IF o = "ok" THEN Append(@, nextId) ELSE @,
                      !.result = IF p = "done"
                                   THEN SetupFailed(FailureMsg("create_failed", o))
                                   ELSE @],
                o = "ok")
        /\ IF o = "ok"
             THEN /\ groups' = Append(groups, [id |-> nextId, w |-> me.cats[me.idx]])
                  /\ nextId' = nextId + 1
             ELSE UNCHANGED <<groups, nextId>>
        /\ UNCHANGED <<weighted, assignments, serviceVars, calc>>

\* PUT .../courses/:id by one of the callers.
RaceEnable ==
    \E c \in RaceCallers, o \in Outcomes :
        LET me == callers.local[c] IN
        /\ me.pc = "enable"
        /\ Step(c, IF o = "ok"
                     THEN [me EXCEPT !.pc = NextStep("enable", me.rules)]
                     ELSE [me EXCEPT
                             !.pc = "done",
                             !.result = SetupFailed(FailureMsg("enable_failed", o))],
                o = "ok")
        /\ weighted' = (weighted \/ o = "ok")
        /\ UNCHANGED <<groups, nextId, assignments, serviceVars, calc>>

\* PUT .../courses/:id/settings by one of the callers.
RaceRules ==
    \E c \in RaceCallers, o \in Outcomes :
        LET me == callers.local[c] IN
        /\ me.pc = "rules"
        /\ Step(c, IF o = "ok"
                     THEN [me EXCEPT !.pc = NextStep("rules", me.rules)]
                     ELSE [me EXCEPT
                             !.pc = "done",
                             !.result = SetupFailed(FailureMsg("rules_failed", o))],
                o = "ok")
        /\ UNCHANGED <<lmsVars, serviceVars, calc>>

\* GET .../assignment_groups by one of the callers, then its return.
RaceVerify ==
    \E c \in RaceCallers, o \in Outcomes, fp \in BOOLEAN :
        LET me == callers.local[c] IN
        /\ me.pc = "verify"
        /\ Step(c, [me EXCEPT
                      !.pc = "done",
                      !.result =
                          IF o = "ok"
                            THEN [status |-> "success", msg |-> "",
                                  n |-> Len(me.created),
                                  total |-> Verification(groups, fp).total,
                                  verified |-> Verification(groups, fp).verified]
                            ELSE SetupFailed(FailureMsg("verify_failed", o))],
                FALSE)
        /\ UNCHANGED <<lmsVars, serviceVars, calc>>

NextRace ==
    \/ RaceCreate
    \/ RaceEnable
    \/ RaceRules
    \/ RaceVerify

SpecRace == InitRace /\ [][NextRace]_vars

\* ------------------------------------------------------------ GradeCalculator
\* Points and scores are whole numbers, percentages are in hundredths of a
\* percent (what round(x, 2) keeps), weights are whole percents.  None is
\* Python's None in a points_possible or score field.
CalcPoints == {3, 10, 90}
CalcScores == {None, 0, 10}
CalcWeights == {0, 30, 50}
DropCounts == 0..MaxDrop

\* Assignments calculate_category_score counts, and ones it leaves out: no
\* points_possible, zero points_possible, not graded.
CountedItems == [pp : CalcPoints, score : CalcScores, graded : {TRUE}]
SkippedItems ==
    {[pp |-> None, score |-> 10, graded |-> TRUE],
     [pp |-> 0, score |-> 10, graded |-> TRUE],
     [pp |-> 10, score |-> None, graded |-> FALSE]}
CalcItems == CountedItems \cup SkippedItems

Lists(S, n) == UNION {[1..k -> S] : k \in 0..n}

\* round(n / d, 2) for a quotient in hundredths, d > 0: the nearest whole
\* number of hundredths; an exact tie falls either way (tieUp).
Rounded(n, d, tieUp) ==
    LET q == n \div d
        r == n - q * d
    IN  IF 2 * r > d \/ (2 * r = d /\ tieUp) THEN q + 1 ELSE q

\* x >= y on floats computed from exact values x and y: equal exact values
\* compare either way (57 / 100 * 100 is 56.99999999999999), fp is that
\* outcome.
FloatGeq(x, y, fp) == x > y \/ (x = y /\ fp)

\* Counted taking every graded assignment.
CountedAnyGraded(a) == a.graded

\* grade_calculator.py:38 and :136.
Counted(a) == a.graded /\ a.pp # None /\ a.pp # 0

\* The numerator of _pct (grade_calculator.py:43-46): a None score is 0.
PctScore(a) == IF a.score # None THEN a.score ELSE 0

\* PctBelow comparing the raw scores.
PctBelowByPoints(a, b) == PctScore(a) < PctScore(b)

\* a's _pct is below b's.
PctBelow(a, b) == PctScore(a) * b.pp < PctScore(b) * a.pp

\* a put into the sorted s behind everything not above it.
Inserted(a, s) ==
    LET k == Cardinality({i \in 1..Len(s) : ~PctBelow(a, s[i])})
    IN  SubSeq(s, 1, k) \o <<a>> \o SubSeq(s, k + 1, Len(s))

\* scored.sort(key=_pct), a stable sort (grade_calculator.py:48).
RECURSIVE SortedByPct(_)
SortedByPct(s) ==
    IF s = <<>> THEN <<>>
    ELSE Inserted(s[Len(s)], SortedByPct(SubSeq(s, 1, Len(s) - 1)))

\* DropLowest without the len(scored) > drop_lowest test.
DropLowestUnguarded(s, k) ==
    IF k > 0 THEN SubSeq(s, k + 1, Len(s)) ELSE s

\* grade_calculator.py:51-52.
DropLowest(s, k) ==
    IF k > 0 /\ Len(s) > k THEN SubSeq(s, k + 1, Len(s)) ELSE s

\* grade_calculator.py:53-54.
DropHighest(s, h) ==
    IF h > 0 /\ Len(s) > h THEN SubSeq(s, 1, Len(s) - h) ELSE s

Survivors(as, k, h) ==
    DropHighest(DropLowest(SortedByPct(SelectSeq(as, Counted)), k), h)

RECURSIVE SumScores(_)
SumScores(s) == IF s = <<>> THEN 0 ELSE s[1].score + SumScores(Tail(s))

RECURSIVE SumPossible(_)
SumPossible(s) == IF s = <<>> THEN 0 ELSE s[1].pp + SumPossible(Tail(s))

\* float(a.get("score", 0)) on a score that is there and is None
\* (grade_calculator.py:59 and :138).
ScoreMissing(s) == \E i \in 1..Len(s) : s[i].score = None

Pending == [kind |-> "pending"]
Nothing == [kind |-> "none"]
TypeError == [kind |-> "raised", error |-> "TypeError"]

\* PercentOf as the mean of the items' percentages.
PercentOfAveraged(s, tieUp) ==
    IF s = <<>> THEN 0
    ELSE Rounded(SumSeq([i \in 1..Len(s) |->
                            (s[i].score * Hundredths) \div s[i].pp]),
                 Len(s), tieUp)

\* grade_calculator.py:59-61 and :67: earned / possible * 100, rounded.
PercentOf(s, tieUp) ==
    IF SumPossible(s) > 0
      THEN Rounded(SumScores(s) * Hundredths, SumPossible(s), tieUp)
      ELSE 0

\* calculate_category_score (grade_calculator.py:28-69).
CategoryScore(as, k, h, tieUp) ==
    LET scored == Survivors(as, k, h) IN
    IF SelectSeq(as, Counted) = <<>> \/ scored = <<>> THEN Nothing
    ELSE IF ScoreMissing(scored) THEN TypeError
    ELSE [kind |-> "score",
          points_earned |-> SumScores(scored),
          points_possible |-> SumPossible(scored),
          percentage |-> PercentOf(scored, tieUp),
          graded_count |-> Len(scored),
          total_count |-> Len(as)]

\* calculate_points_grade (grade_calculator.py:134-148).
PointsGrade(as, tieUp) ==
    LET graded == SelectSeq(as, Counted) IN
    IF ScoreMissing(graded) THEN TypeError
    ELSE [kind |-> "grade",
          percentage |-> PercentOf(graded, tieUp),
          points_earned |-> SumScores(graded),
          points_possible |-> SumPossible(graded)]

\* A category as calculate_weighted_grade reads it.
Category(w, as, k, h) == [weight |-> w, items |-> as, dl |-> k, dh |-> h]

ScoreOf(cat, tieUp) == CategoryScore(cat.items, cat.dl, cat.dh, tieUp)

\* Contributes counting every category that has a weight.
ContributesUngraded(cat, sc) == cat.weight > 0

\* grade_calculator.py:98-106: the category adds to weighted_sum and
\* total_weight.
Contributes(cat, sc) == sc.kind = "score" /\ cat.weight > 0

\* The loop of grade_calculator.py:85-113 over the categories from i on:
\* weighted_sum (times 100), total_weight and the unweighted pool.
RECURSIVE Totals(_, _, _)
Totals(cs, i, tieUp) ==
    IF i > Len(cs) THEN [ws |-> 0, tw |-> 0, earned |-> 0, possible |-> 0]
    ELSE LET sc   == ScoreOf(cs[i], tieUp)
             rest == Totals(cs, i + 1, tieUp)
         IN  IF Contributes(cs[i], sc)
               THEN [rest EXCEPT
                       !.ws = @ + (IF sc.kind = "score" THEN sc.percentage ELSE 0)
                                  * cs[i].weight,
                       !.tw = @ + cs[i].weight]
             ELSE IF sc.kind = "score"
               THEN [rest EXCEPT !.earned = @ + sc.points_earned,
                                 !.possible = @ + sc.points_possible]
             ELSE rest

\* calculate_weighted_grade (grade_calculator.py:71-132).
WeightedGrade(cs, tieUp) ==
    LET t == Totals(cs, 1, tieUp) IN
    IF \E i \in 1..Len(cs) : ScoreOf(cs[i], tieUp) = TypeError THEN TypeError
    ELSE [kind |-> "grade",
          percentage |->
              IF t.tw > 0 THEN Rounded(t.ws, t.tw, tieUp)
              ELSE IF t.possible > 0
                THEN Rounded(t.earned * Hundredths, t.possible, tieUp)
              ELSE 0,
          points_earned |-> t.earned,
          points_possible |-> t.possible,
          scored |-> {i \in 1..Len(cs) : ScoreOf(cs[i], tieUp).kind = "score"}]

\* WhatIfTarget without the total_possible <= 0 return.
NoWorkAtAllIgnored(cp, rp) == FALSE

\* grade_calculator.py:160-162.
NoWorkAtAll(cp, rp) == cp + rp <= 0

\* what_if_target (grade_calculator.py:150-193); fp is the outcome of a
\* float comparison of equal exact values.
WhatIfTarget(ce, cp, rp, t, fp, tieUp) ==
    LET needed == t * (cp + rp) - 100 * ce      \* needed_remaining, hundredths
    IN
    IF NoWorkAtAll(cp, rp)
      THEN [kind |-> "unavailable", achievable |-> FALSE]
    ELSE IF rp <= 0
      THEN [kind |-> "target",
            achievable |-> IF cp > 0 THEN FloatGeq(ce * 100, t * cp, fp)
                                     ELSE FALSE,
            needed_score |-> 0, needed_percentage |-> 0]
    ELSE [kind |-> "target",
          achievable |-> FloatGeq(100 * rp, needed, fp),
          needed_score |-> needed,
          needed_percentage |-> Rounded(needed * 100, rp, tieUp)]

\* GRADE_SCALE (grade_calculator.py:15-19), thresholds in hundredths.
GRADE_SCALE ==
    <<[min |-> 9300, letter |-> "A"],  [min |-> 9000, letter |-> "A-"],
      [min |-> 8700, letter |-> "B+"], [min |-> 8300, letter |-> "B"],
      [min |-> 8000, letter |-> "B-"], [min |-> 7700, letter |-> "C+"],
      [min |-> 7300, letter |-> "C"],  [min |-> 7000, letter |-> "C-"],
      [min |-> 6700, letter |-> "D+"], [min |-> 6300, letter |-> "D"],
      [min |-> 6000, letter |-> "D-"], [min |-> 0, letter |-> "F"]>>

\* Reaches with > in place of >=.
ReachesAbove(p, threshold) == p > threshold

\* grade_calculator.py:24.
Reaches(p, threshold) == p >= threshold

\* percentage_to_letter (grade_calculator.py:21-26): the first threshold
\* reached, "F" when none is.
PercentageToLetter(p) ==
    LET reached == {i \in 1..Len(GRADE_SCALE) : Reaches(p, GRADE_SCALE[i].min)}
    IN  IF reached = {} THEN "F"
        ELSE GRADE_SCALE[CHOOSE i \in reached : \A j \in reached : i <= j].letter

\* Overlaid with the hypothetical score put in, the assignment left ungraded.
OverlaidUngraded(a, sc) == [a EXCEPT !.score = sc]

\* grade_calculator.py:207-209 on the copy of one assignment.
Overlaid(a, sc) == [a EXCEPT !.score = sc, !.graded = TRUE]

\* The list what_if_scores builds (grade_calculator.py:204-210).  An
\* assignment's id is its position in the list.
Modified(as, hyp) ==
    [i \in 1..Len(as) |->
        IF i \in DOMAIN hyp THEN Overlaid(as[i], hyp[i]) ELSE as[i]]

\* what_if_scores (grade_calculator.py:195-212).
WhatIfScores(as, hyp, tieUp) == PointsGrade(Modified(as, hyp), tieUp)

\* The caller's list after what_if_scores: a_copy = dict(a) keeps the
\* caller's records as they were (grade_calculator.py:205).
CallerList(as, hyp) == as

\* The calls made: a call is drawn, then the calculator applied to it.
CategoryScoreCalls ==
    [fn : {"category_score"}, items : Lists(CalcItems, MaxItems),
     dl : DropCounts, dh : DropCounts, out : {Pending}]

PointsGradeCalls ==
    [fn : {"points_grade"}, items : Lists(CalcItems, MaxPointsItems),
     out : {Pending}]

CatItems == {a \in CalcItems : a.pp = 10}

WeightedGradeCalls ==
    [fn : {"weighted_grade"},
     cats : Lists([weight : CalcWeights, items : Lists(CatItems, MaxCatItems),
                   dl : {0}, dh : {0}], MaxCalcCats),
     out : {Pending}]

WhatIfEarned == {0, 5, 57, 100}
WhatIfPossible == {0, 50, 100}
WhatIfRemaining == {0, 50, 100}
WhatIfTargets == {55, 57, 90}

WhatIfTargetCalls ==
    [fn : {"what_if_target"}, ce : WhatIfEarned, cp : WhatIfPossible,
     rp : WhatIfRemaining, t : WhatIfTargets, out : {Pending}]

\* Percentages at, just below and far from the thresholds.
LetterInputs ==
    {GRADE_SCALE[i].min + d : i \in 1..Len(GRADE_SCALE), d \in {-5000, -1, 0, 1}}
        \cup {15000}

LetterCalls == [fn : {"percentage_to_letter"}, p : LetterInputs, out : {Pending}]

\* Hypothetical scores by assignment id; the id past the longest list
\* matches no assignment.
HypIds == 1..(MaxPointsItems + 1)
HypScores == {0, 10}
HypMaps == UNION {[S -> HypScores] : S \in SUBSET HypIds}

WhatIfScoresCalls ==
    {[fn |-> "what_if_scores", items |-> as, passed |-> as, hyp |-> h,
      out |-> Pending] : as \in Lists(CalcItems, MaxPointsItems), h \in HypMaps}

InitCalc ==
    /\ groups = <<>>
    /\ nextId = 1
    /\ weighted = FALSE
    /\ assignments = <<>>
    /\ ServiceIdle
    /\ callers = NoCallers
    /\ calc \in CategoryScoreCalls \cup PointsGradeCalls
                \cup WeightedGradeCalls \cup WhatIfTargetCalls
                \cup LetterCalls \cup WhatIfScoresCalls

Called(f) == calc.fn = f /\ calc.out = Pending

Returns(r) ==
    /\ calc' = [calc EXCEPT !.out = r]
    /\ UNCHANGED <<lmsVars, serviceVars, callers>>

ApplyCategoryScore ==
    \E tieUp \in BOOLEAN :
        /\ Called("category_score")
        /\ Returns(CategoryScore(calc.items, calc.dl, calc.dh, tieUp))

ApplyPointsGrade ==
    \E tieUp \in BOOLEAN :
        /\ Called("points_grade")
        /\ Returns(PointsGrade(calc.items, tieUp))

ApplyWeightedGrade ==
    \E tieUp \in BOOLEAN :
        /\ Called("weighted_grade")
        /\ Returns(WeightedGrade(calc.cats, tieUp))

ApplyWhatIfTarget ==
    \E fp \in BOOLEAN, tieUp \in BOOLEAN :
        /\ Called("what_if_target")
        /\ Returns(WhatIfTarget(calc.ce, calc.cp, calc.rp, calc.t, fp, tieUp))

ApplyPercentageToLetter ==
    /\ Called("percentage_to_letter")
    /\ Returns([kind |-> "letter", letter |-> PercentageToLetter(calc.p)])

ApplyWhatIfScores ==
    \E tieUp \in BOOLEAN :
        /\ Called("what_if_scores")
        /\ calc' = [calc EXCEPT
                      !.out = WhatIfScores(calc.items, calc.hyp, tieUp),
                      !.items = CallerList(calc.items, calc.hyp)]
        /\ UNCHANGED <<lmsVars, serviceVars, callers>>

NextCalc ==
    \/ ApplyCategoryScore
    \/ ApplyPointsGrade
    \/ ApplyWeightedGrade
    \/ ApplyWhatIfTarget
    \/ ApplyPercentageToLetter
    \/ ApplyWhatIfScores

SpecCalc == InitCalc /\ [][NextCalc]_vars

\* ================================================================== claims
Last(s) == s[Len(s)]
AllOk(s) == \A i \in 1..Len(s) : s[i].out = "ok"
Names(s) == [i \in 1..Len(s) |-> s[i].call]
IsPrefix(s, t) == Len(s) <= Len(t) /\ \A i \in 1..Len(s) : s[i] = t[i]
Within(total) == Abs(total - Target) <= Tolerance
After(o) == hist # <<>> /\ Last(hist).op = o

\* The requests of a complete setup for n categories, with or without the
\* global-rules request.
FullSetup(n, withRules) ==
    [i \in 1..n |-> "create"] \o <<"enable">>
    \o (IF withRules THEN <<"rules">> ELSE <<>>) \o <<"get_groups">>

\* C1: a setup call whose weights total more than 0.01 away from 100 returns
\* status "error", has sent no request and has left the LMS as it was.
C1_RejectedSetupSendsNothing ==
    (op = "setup" /\ ~Within(SumSeq(cats)))
        => /\ pc = "done"
           /\ result.status = "error"
           /\ log = <<>>
           /\ Lms = lms0

C1_Witness ==
    /\ op = "setup" /\ pc = "done"
    /\ cats = <<0, 0>>
    /\ SumSeq(cats) < Target - Tolerance
    /\ result.status = "error" /\ result.msg = "weights_total"

\* C2: the requests of a setup are, in order, one creation per category in
\* input order, enable, the global rules (only if rules were passed), the
\* verification fetch; a request is sent only after every earlier one
\* succeeded, and a successful setup has sent them all.
C2_SetupOrder ==
    op = "setup" =>
        /\ \/ IsPrefix(Names(log), FullSetup(Len(cats), FALSE))
           \/ rules # "none" /\ IsPrefix(Names(log), FullSetup(Len(cats), TRUE))
        /\ \A i \in 1..Len(log) :
              /\ log[i].call = "create" => log[i].arg = i /\ log[i].w = cats[i]
              /\ i < Len(log) => log[i].out = "ok"
        /\ result.status = "success" =>
              /\ AllOk(log)
              /\ Names(log) \in {FullSetup(Len(cats), FALSE),
                                 FullSetup(Len(cats), TRUE)}

C2_Witness ==
    /\ op = "setup" /\ pc = "done" /\ result.status = "success"
    /\ Names(log) = <<"create", "create", "enable", "rules", "get_groups">>

\* C3: when the creation of category i fails, the groups created for the
\* categories before it stay at the LMS, nothing more is created, deleted,
\* updated or enabled, and setup returns status "error".
C3_NoRollback ==
    (op = "setup" /\ log # <<>> /\ Last(log).call = "create"
                  /\ Last(log).out # "ok")
        => LET i == Len(log) IN
           /\ pc = "done" /\ result.status = "error"
           /\ Names(log) = [k \in 1..i |-> "create"]
           /\ Len(groups) = Len(lms0.groups) + i - 1
           /\ \A k \in 1..Len(lms0.groups) : groups[k] = lms0.groups[k]
           /\ \A k \in 1..i - 1 : groups[Len(lms0.groups) + k].w = cats[k]
           /\ weighted = lms0.weighted
           /\ assignments = lms0.assignments

C3_Witness ==
    /\ op = "setup" /\ pc = "done" /\ Len(log) = 2
    /\ Last(log).call = "create"
    /\ Last(log).out = "bad" /\ Len(groups) = Len(lms0.groups) + 1
    /\ result.status = "error"

\* C4: no failed request of setup escapes as an exception: setup returns
\* status "error" with the failure's message.
C4_SetupNeverRaises ==
    op = "setup" =>
        /\ result.status # "raised"
        /\ (log # <<>> /\ Last(log).out # "ok") =>
              /\ pc = "done" /\ result.status = "error"
              /\ Last(log).out = "exc" => result.msg = "transport"
              /\ Last(log).out = "bad" =>
                    result.msg = (CASE Last(log).call = "create" -> "create_failed"
                                    [] Last(log).call = "enable" -> "enable_failed"
                                    [] Last(log).call = "rules" -> "rules_failed"
                                    [] OTHER -> "verify_failed")

C4_Witness ==
    /\ op = "setup" /\ pc = "done" /\ log # <<>>
    /\ Last(log).call = "get_groups"
    /\ Last(log).out = "exc" /\ result.status = "error"

\* C5 as stated: on a course that had no groups and no assignments, a
\* successful setup (weights totalling exactly 100) followed by analyze (all
\* its fetches answered) yields health "healthy" and no issue.
C5_RoundTripHealthy ==
    (op = "analyze" /\ pc = "done" /\ After("setup") /\ Last(hist).success
        /\ Last(hist).fresh /\ AllOk(log) /\ SumWeights(groups) = Target)
        => analysis.health = "healthy" /\ analysis.issues = <<>>

\* C5 amended: in that round trip every group setup created is empty, so
\* an analysis that lists the groups counts them all as empty, raises the
\* empty-categories issue and reports "needs_attention"; it raises no orphan
\* issue.
C5_RoundTripEmptyGroups ==
    (op = "analyze" /\ pc = "done" /\ After("setup") /\ Last(hist).success
        /\ Last(hist).fresh /\ result.status = "analysis")
        => /\ analysis.orphans = 0
           /\ \A i \in 1..Len(analysis.issues) : analysis.issues[i].kind # "orphans"
           /\ analysis.groups # <<>> =>
                 /\ analysis.groups = groups
                 /\ analysis.empty = Len(groups)
                 /\ \E i \in 1..Len(analysis.issues) :
                       analysis.issues[i] = Issue("empty_groups", Len(groups))
                 /\ analysis.health = "needs_attention"

C5_Witness ==
    /\ op = "analyze" /\ pc = "done" /\ After("setup") /\ Last(hist).success
    /\ Last(hist).fresh /\ AllOk(log) /\ Len(groups) = 2
    /\ analysis.issues = <<Issue("empty_groups", 2)>>
    /\ analysis.health = "needs_attention"

\* C6 as stated: after fix "auto" (every request answered with success) on a
\* course whose weights totalled more than 0.01 away from 100 and more than
\* 0, the weights at the LMS total 100 within 0.01.
C6_AutoFixTotals100 ==
    (op = "fix_auto" /\ pc = "done" /\ AllOk(log)
        /\ ~Within(SumWeights(lms0.groups)) /\ SumWeights(lms0.groups) > 0)
        => Within(SumWeights(groups))

\* C7 as stated: when a request of analyze or fix gets a non-success answer,
\* the operation returns status "error" naming the failed step.
C7_FailedCallGivesError ==
    (Analysing /\ pc = "done" /\ \E i \in 1..Len(log) : log[i].out = "bad")
        => result.status = "error" /\ result.msg # ""

\* C8 as stated: whenever the total weight of the course's groups is more
\* than 0.01 away from 100,
\* weighted grading enabled or not, analyze reports the total, a weight-total
\* issue and the exact amount to add or to remove.
C8_WeightTotalAlwaysChecked ==
    (op = "analyze" /\ pc = "done" /\ AllOk(log) /\ groups # <<>>
        /\ ~Within(SumWeights(groups)))
        => LET t == SumWeights(groups) IN
           /\ analysis.total = t
           /\ \E i \in 1..Len(analysis.issues) :
                 analysis.issues[i] = Issue("weight_total", t)
           /\ \E i \in 1..Len(analysis.suggestions) :
                 analysis.suggestions[i] =
                     IF t < Target THEN Issue("add", Target - t)
                                   ELSE Issue("reduce", t - Target)

\* C9 as stated: after a setup that failed during creation with at least one
\* group created, analyze reports "needs_attention", and a following fix
\* "auto" leaves the weights totalling 100 within 0.01 and, with more than
\* one group, weighted grading enabled (every request of analyze and fix
\* answered with success).
C9_RecoveryPath ==
    /\ (op = "analyze" /\ pc = "done" /\ AllOk(log) /\ After("setup")
          /\ Last(hist).partial)
          => analysis.health = "needs_attention"
    /\ (op = "fix_auto" /\ pc = "done" /\ AllOk(log) /\ Len(hist) = 2
          /\ hist[1].op = "setup" /\ hist[1].partial)
          => /\ Within(SumWeights(groups))
             /\ Len(groups) > 1 => weighted

\* C10 as stated: fix "reset" (its fetches answered) sends one delete per
\* group of the course and no update or enable; when it returns "success" no
\* group is left and groups_deleted is the number of groups there were.
C10_ResetDeletesAll ==
    (op = "fix_reset" /\ pc = "done" /\ Len(log) >= 3
        /\ AllOk(SubSeq(log, 1, 3)))
        => /\ \A i \in 1..Len(log) : log[i].call \notin {"update", "enable"}
           /\ result.status = "success" =>
                 /\ Len(log) = 3 + Len(lms0.groups)
                 /\ \A k \in 1..Len(lms0.groups) :
                       log[3 + k] \in {Call("delete", lms0.groups[k].id, 0, o) :
                                        o \in Outcomes}
                 /\ groups = <<>>
                 /\ result.n = Len(lms0.groups)

\* C11: analyze_existing_setup sends only the three fetches (groups, course,
\* assignments), never a create, update, delete, enable or rules request,
\* and the LMS is at every moment of the call what it was when it began.
Fetches == {"get_groups", "get_course", "get_assignments"}

C11_AnalyzeReadOnly ==
    op = "analyze" =>
        /\ \A i \in 1..Len(log) : log[i].call \in Fetches
        /\ Lms = lms0
        /\ pc = "done" /\ ~analysis.failed =>
              Names(log) = <<"get_groups", "get_course", "get_assignments">>

C11_Witness ==
    /\ op = "analyze" /\ pc = "done"
    /\ Len(log) = 3 /\ AllOk(log)
    /\ Len(groups) > 1 /\ assignments # <<>>
    /\ analysis.health = "needs_attention"

\* C12: fix_existing_setup("auto") sends no create and no delete, leaves the
\* course with the same groups (by id, in order) and every assignment in the
\* group it was in, so that the orphan and empty-group counts of the course
\* are the same at every moment of the fix as before it.
GroupIds(gs) == [i \in 1..Len(gs) |-> gs[i].id]

C12_AutoFixKeepsStructure ==
    op = "fix_auto" =>
        /\ \A i \in 1..Len(log) : log[i].call \notin {"create", "delete"}
        /\ GroupIds(groups) = GroupIds(lms0.groups)
        /\ assignments = lms0.assignments
        /\ OrphanCount(assignments) = OrphanCount(lms0.assignments)
        /\ EmptyCount(groups, assignments)
             = EmptyCount(lms0.groups, lms0.assignments)

C12_Witness ==
    /\ op = "fix_auto" /\ pc = "done" /\ result.status = "success"
    /\ AllOk(log)
    /\ \E i \in 1..Len(log) : log[i].call = "update"
    /\ \E i \in 1..Len(groups) : groups[i].w # lms0.groups[i].w
    /\ OrphanCount(assignments) + EmptyCount(groups, assignments) > 1

\* C13: every analysis returned says "healthy" exactly when its issues list
\* is empty, which is exactly when none of the four checks put an issue in
\* it (weighting off with several groups, weight total, orphans, empty
\* groups); any other analysis says "needs_attention".
Kinds(issues) == {issues[i].kind : i \in 1..Len(issues)}

C13_HealthyIffNoIssues ==
    op = "analyze" /\ pc = "done" /\ ~analysis.failed =>
        /\ analysis.health \in {"healthy", "needs_attention"}
        /\ analysis.health = "healthy" <=> analysis.issues = <<>>
        /\ analysis.health = "healthy" <=>
              Kinds(analysis.issues) \cap
                {"weighting_off", "weight_total", "orphans", "empty_groups"} = {}
        /\ analysis.health = "healthy" =>
              /\ analysis.enabled \/ Len(analysis.groups) <= 1
              /\ analysis.enabled => Within(analysis.total)
              /\ analysis.orphans = 0 /\ analysis.empty = 0

C13_Witness ==
    /\ op = "analyze" /\ pc = "done" /\ ~analysis.failed
    /\ AllOk(log)
    /\ analysis.health = "healthy"
    /\ Len(analysis.groups) = 1 /\ assignments # <<>>

\* C14: the analysis reports as orphan_assignments the number of the
\* course's assignments in no group and as empty_groups the number of the
\* course's groups holding no assignment, with an orphan issue carrying
\* that count exactly when it is positive and an empty-group issue exactly
\* when that count is positive.
HasIssue(a, k, n) == \E i \in 1..Len(a.issues) : a.issues[i] = Issue(k, n)

C14_CountsAreTheCourses ==
    op = "analyze" /\ pc = "done" /\ ~analysis.failed =>
        /\ analysis.orphans = OrphanCount(assignments)
        /\ analysis.empty = EmptyCount(groups, assignments)
        /\ "orphans" \in Kinds(analysis.issues)
             <=> OrphanCount(assignments) > 0
        /\ "empty_groups" \in Kinds(analysis.issues)
             <=> EmptyCount(groups, assignments) > 0
        /\ OrphanCount(assignments) > 0
             => HasIssue(analysis, "orphans", OrphanCount(assignments))

\* C15: setup_weighted_grading takes no lock, and when two calls for the same
\* course have interleaved their requests and both have returned, the
\* course's groups are the ones created by the caller that wrote last, with
\* the weights it passed.  Stated for two calls that both returned success.
BothSucceeded ==
    \A c \in RaceCallers :
        callers.local[c].pc = "done" /\ callers.local[c].result.status = "success"

C15_LastWriteWins ==
    callers # NoCallers /\ BothSucceeded =>
        LET win == callers.local[Last(callers.writes)] IN
        /\ GroupIds(groups) = win.created
        /\ \A i \in 1..Len(groups) : groups[i].w = win.cats[i]

\* C16: calculate_category_score with drop_lowest = k (and no drop_highest)
\* on n counted items keeps at least max(1, n - k) of them, and the same
\* with drop_highest; a drop asking for as many items as remain or more is
\* skipped, so with n >= 1 some item always survives and a score is computed
\* from graded_count >= 1 items.
Max(a, b) == IF a > b THEN a ELSE b
CountedIn(as) == Len(SelectSeq(as, Counted))
AfterDrop(n, k) == IF k >= n THEN n ELSE n - k

C16_DropsLeaveSurvivors ==
    calc.fn = "category_score" =>
        LET n    == CountedIn(calc.items)
            left == Len(Survivors(calc.items, calc.dl, calc.dh))
        IN  /\ left = AfterDrop(AfterDrop(n, calc.dl), calc.dh)
            /\ n >= 1 /\ calc.dh = 0 => left >= Max(1, n - calc.dl)
            /\ n >= 1 /\ calc.dl = 0 => left >= Max(1, n - calc.dh)
            /\ n >= 1 => left >= 1
            /\ n >= 1 /\ calc.out # Pending => calc.out # Nothing
            /\ calc.out # Pending /\ calc.out.kind = "score" =>
                  calc.out.graded_count = left

C16_Witness ==
    /\ calc.fn = "category_score" /\ calc.out # Pending
    /\ calc.out.kind = "score"
    /\ CountedIn(calc.items) = 2
    /\ calc.dl = 2 /\ calc.dh = 1
    /\ calc.out.graded_count = 1

\* C17: the percentage calculate_category_score returns is the surviving
\* scores' sum over the surviving points_possible's sum, times 100, as an
\* exact value.
IsCategoryScore ==
    calc.fn = "category_score" /\ calc.out # Pending /\ calc.out.kind = "score"

C17_ExactRatio ==
    IsCategoryScore =>
        calc.out.percentage * calc.out.points_possible
          = calc.out.points_earned * Hundredths

\* C17, amended: the percentage returned is that ratio rounded to two
\* decimals (within half a hundredth of it), the sums being those of the
\* survivors' raw scores and points; 10/10 with 0/90 gives 10.00.
Item(p, sc) == [pp |-> p, score |-> sc, graded |-> TRUE]

C17_RoundedRatio ==
    IsCategoryScore =>
        LET left == Survivors(calc.items, calc.dl, calc.dh) IN
        /\ calc.out.points_earned = SumScores(left)
        /\ calc.out.points_possible = SumPossible(left)
        /\ 2 * Abs(calc.out.percentage * calc.out.points_possible
                   - calc.out.points_earned * Hundredths)
             <= calc.out.points_possible
        /\ calc.items = <<Item(10, 10), Item(90, 0)>> /\ calc.dl = 0 /\ calc.dh = 0
             => calc.out.percentage = 1000

C17_Witness ==
    /\ IsCategoryScore
    /\ calc.items = <<Item(10, 10), Item(90, 0)>> /\ calc.dl = 0 /\ calc.dh = 0
    /\ calc.out.percentage = 1000

\* C18: calculate_weighted_grade returns, to the two decimals it keeps, the
\* sum of percentage * weight over the sum of weight, both taken over the
\* categories with a weight above 0 and a category score; a category without
\* graded work is in neither sum (50/50 with one category at 100 % and the
\* other ungraded gives 100.00).
Weighing(cs) ==
    {i \in 1..Len(cs) : cs[i].weight > 0 /\ ScoreOf(cs[i], TRUE).kind = "score"}

RECURSIVE WeightedPercents(_, _)
WeightedPercents(cs, S) ==
    IF S = {} THEN 0
    ELSE LET i == CHOOSE i \in S : TRUE
         IN  ScoreOf(cs[i], TRUE).percentage * cs[i].weight
               + WeightedPercents(cs, S \ {i})

RECURSIVE Weights(_, _)
Weights(cs, S) ==
    IF S = {} THEN 0
    ELSE LET i == CHOOSE i \in S : TRUE
         IN  cs[i].weight + Weights(cs, S \ {i})

IsWeightedGrade ==
    calc.fn = "weighted_grade" /\ calc.out # Pending /\ calc.out.kind = "grade"

C18_WeightedMean ==
    IsWeightedGrade /\ Weighing(calc.cats) # {} =>
        LET W == Weighing(calc.cats) IN
        2 * Abs(calc.out.percentage * Weights(calc.cats, W)
                - WeightedPercents(calc.cats, W))
          <= Weights(calc.cats, W)

C18_Witness ==
    /\ IsWeightedGrade
    /\ calc.cats = <<Category(50, <<Item(10, 10)>>, 0, 0),
                     Category(50, <<[pp |-> 10, score |-> None,
                                     graded |-> FALSE]>>, 0, 0)>>
    /\ calc.out.percentage = Hundredths

\* C19: no GradeCalculator operation raises, whatever assignments the data
\* model allows it is given (a graded assignment with a null score
\* included): it returns 0, null or a record.
C19_NeverRaises == calc.out.kind # "raised"

\* C20: with remaining_possible <= 0, what_if_target reports needed_score 0,
\* and achievable exactly when current_earned / current_possible * 100 is at
\* least the target, whatever current_possible is, 0 included.
C20_NoRemainingWork ==
    calc.fn = "what_if_target" /\ calc.out # Pending /\ calc.rp <= 0 =>
        /\ calc.out.kind = "target"
        /\ calc.out.needed_score = 0
        /\ calc.out.achievable
             <=> calc.cp > 0 /\ calc.ce * 100 >= calc.t * calc.cp

\* C21 as stated: with remaining_possible > 0, what_if_target reports as
\* needed_percentage (to the two decimals it keeps) the value
\* (target / 100 * (current_possible + remaining_possible) - current_earned)
\* / remaining_possible * 100, unclamped, and says achievable exactly when
\* that value is at most 100.
NeededHundredths(c) == c.t * (c.cp + c.rp) - 100 * c.ce

C21_NeededPercentage ==
    calc.fn = "what_if_target" /\ calc.out # Pending /\ calc.rp > 0 =>
        /\ calc.out.kind = "target"
        /\ 2 * Abs(calc.out.needed_percentage * calc.rp
                   - NeededHundredths(calc) * 100) <= calc.rp
        /\ calc.out.achievable <=> NeededHundredths(calc) <= 100 * calc.rp

\* C22: calculate_category_score counts exactly the assignments that are
\* graded and have points_possible above 0: it returns null exactly when
\* there is none, and without drops its points_possible, points_earned and
\* graded_count are those of that set; scores that are all 0 give a score
\* of 0 %, not null.
IsCounted(a) == a.graded /\ a.pp # None /\ a.pp > 0
CountedSet(as) == {i \in 1..Len(as) : IsCounted(as[i])}

RECURSIVE PossibleOver(_, _)
PossibleOver(as, S) ==
    IF S = {} THEN 0
    ELSE LET i == CHOOSE i \in S : TRUE IN as[i].pp + PossibleOver(as, S \ {i})

RECURSIVE EarnedOver(_, _)
EarnedOver(as, S) ==
    IF S = {} THEN 0
    ELSE LET i == CHOOSE i \in S : TRUE IN as[i].score + EarnedOver(as, S \ {i})

C22_CountsGradedWithPoints ==
    calc.fn = "category_score" /\ calc.out # Pending =>
        LET S == CountedSet(calc.items) IN
        /\ calc.out = Nothing <=> S = {}
        /\ calc.out.kind = "score" /\ calc.dl = 0 /\ calc.dh = 0 =>
              /\ calc.out.graded_count = Cardinality(S)
              /\ calc.out.points_possible = PossibleOver(calc.items, S)
              /\ calc.out.points_earned = EarnedOver(calc.items, S)
        /\ S # {} /\ (\A i \in S : calc.items[i].score = 0) =>
              calc.out.kind = "score" /\ calc.out.percentage = 0

C22_Witness ==
    /\ calc.fn = "category_score" /\ calc.out # Pending
    /\ calc.out.kind = "score" /\ calc.out.percentage = 0
    /\ calc.dl = 0 /\ calc.dh = 0
    /\ Len(calc.items) = 3 /\ calc.out.graded_count = 1
    /\ \E i \in 1..3 : calc.items[i].pp = 0
    /\ \E i \in 1..3 : ~calc.items[i].graded

\* C23: percentage_to_letter gives every percentage the one letter whose
\* half-open interval [threshold, next threshold) holds it, A from 93 up
\* (above 100 too) and F below 60 (negatives too), and never a lower letter
\* to a higher percentage.
LetterRank(l) ==
    CHOOSE i \in 1..Len(GRADE_SCALE) : GRADE_SCALE[i].letter = l

InInterval(p, i) ==
    /\ i = Len(GRADE_SCALE) \/ GRADE_SCALE[i].min <= p
    /\ i = 1 \/ p < GRADE_SCALE[i - 1].min

IsLetter == calc.fn = "percentage_to_letter" /\ calc.out # Pending

C23_LetterIntervals ==
    IsLetter =>
        /\ \E i \in 1..Len(GRADE_SCALE) :
              InInterval(calc.p, i) /\ calc.out.letter = GRADE_SCALE[i].letter
        /\ calc.p >= 9300 <=> calc.out.letter = "A"
        /\ calc.p < 6000 <=> calc.out.letter = "F"
        /\ \A q \in LetterInputs :
              q <= calc.p =>
                 LetterRank(PercentageToLetter(q)) >= LetterRank(calc.out.letter)

C23_Witness ==
    /\ IsLetter
    /\ calc.p = 9000 /\ calc.out.letter = "A-"

\* C24: what_if_scores returns what calculate_points_grade returns for the
\* list in which each assignment whose id is a key of hypothetical_scores has
\* that score and is graded, the others being as passed; the caller's list
\* is as it was, and keys matching no assignment, or no keys, give
\* calculate_points_grade of the list passed.
IsWhatIfScores == calc.fn = "what_if_scores" /\ calc.out # Pending

WithHypotheticals(as, hyp) ==
    [i \in 1..Len(as) |->
        IF i \in DOMAIN hyp
          THEN [pp |-> as[i].pp, score |-> hyp[i], graded |-> TRUE]
          ELSE as[i]]

C24_WhatIfScoresOverlay ==
    IsWhatIfScores =>
        /\ \E tieUp \in BOOLEAN :
              calc.out = PointsGrade(WithHypotheticals(calc.passed, calc.hyp), tieUp)
        /\ calc.items = calc.passed
        /\ DOMAIN calc.hyp \cap (1..Len(calc.passed)) = {} =>
              \E tieUp \in BOOLEAN : calc.out = PointsGrade(calc.passed, tieUp)

C24_Witness ==
    /\ IsWhatIfScores
    /\ calc.passed = <<Item(10, 0), [pp |-> 10, score |-> None, graded |-> FALSE]>>
    /\ DOMAIN calc.hyp = {2, 3} /\ calc.hyp[2] = 10
    /\ calc.out.kind = "grade" /\ calc.out.percentage = 5000

\* C25: calculate_category_score drops by per-item percentage: the items
\* left out by drop_lowest have percentages no higher than any other counted
\* item, the items then left out by drop_highest have percentages no lower
\* than any survivor, and the sums returned are those of the survivors (3
\* items with drop_lowest = 2 and drop_highest = 1 leave the one with the
\* highest percentage).
NoHigher(a, b) == PctScore(a) * b.pp <= PctScore(b) * a.pp

Lowest(n, k) == IF k > 0 /\ n > k THEN k ELSE 0

SplitsByPct(as, L, H) ==
    LET C == CountedSet(as) IN
    /\ \A l \in L, x \in C \ L : NoHigher(as[l], as[x])
    /\ \A x \in C \ (L \cup H), h \in H : NoHigher(as[x], as[h])

C25_DropsByPercentage ==
    IsCategoryScore =>
        LET as == calc.items
            C  == CountedSet(as)
            lo == Lowest(Cardinality(C), calc.dl)
            hi == Lowest(Cardinality(C) - lo, calc.dh)
        IN  \E L \in {S \in SUBSET C : Cardinality(S) = lo} :
            \E H \in {S \in SUBSET (C \ L) : Cardinality(S) = hi} :
                /\ SplitsByPct(as, L, H)
                /\ calc.out.points_possible = PossibleOver(as, C \ (L \cup H))
                /\ calc.out.points_earned = EarnedOver(as, C \ (L \cup H))

C25_Witness ==
    /\ IsCategoryScore
    /\ calc.items = <<Item(90, 10), Item(3, 10), Item(10, 0)>>
    /\ calc.dl = 2 /\ calc.dh = 1
    /\ calc.out.points_earned = 10 /\ calc.out.points_possible = 3

\* C30 as stated: calculate_category_score returns the same points_earned,
\* points_possible and percentage for every order in which the same
\* assignments are passed, with the same drop_lowest and drop_highest.
\* Stated for assignments that all have a score.
Orders(s) ==
    {[i \in 1..Len(s) |-> s[f[i]]] :
        f \in {g \in [1..Len(s) -> 1..Len(s)] :
                 \A i, j \in 1..Len(s) : g[i] = g[j] => i = j}}

C30_OrderIndependent ==
    calc.fn = "category_score" /\ calc.out # Pending
        /\ ~ScoreMissing(calc.items) =>
        \A q \in Orders(calc.items) :
            \E tieUp \in BOOLEAN :
                CategoryScore(q, calc.dl, calc.dh, tieUp) = calc.out

\* C26 as stated: fix "auto" (every request answered with success) on a
\* course whose weights total more than 0 sets every group's weight to its
\* old weight times 100 / total, rounded to two decimals, which keeps equal
\* weights equal and the order of the groups by weight; it sends no weight
\* update when the total is within 0.01 of 100.
AutoFixed == op = "fix_auto" /\ pc = "done" /\ AllOk(log)

Updates(l) == {i \in 1..Len(l) : l[i].call = "update"}

C26_ProportionalRescale ==
    AutoFixed /\ SumWeights(lms0.groups) > 0 =>
        LET old   == lms0.groups
            total == SumWeights(old)
        IN  /\ Within(total) => Updates(log) = {}
            /\ ~Within(total) =>
                  \A i \in 1..Len(old) :
                      \E tieUp \in BOOLEAN :
                          groups[i].w = NewWeight(old[i].w, total, tieUp)
            /\ \A i, j \in 1..Len(old) :
                  old[i].w <= old[j].w => groups[i].w <= groups[j].w

\* C27 as stated: fix "auto" (every request answered with success) sends the
\* enable request exactly when the course has more than one group and
\* weighted grading is not enabled, and sends it after every weight update.
Enables(l) == {i \in 1..Len(l) : l[i].call = "enable"}

C27_EnableWhenNeeded ==
    AutoFixed =>
        /\ Enables(log) # {} <=> Len(lms0.groups) > 1 /\ ~lms0.weighted
        /\ \A e \in Enables(log), u \in Updates(log) : u < e

\* C28 as stated: whenever setup returns "success", the verification in it
\* says verified, and the weights of all groups then at the LMS total 100
\* within 0.01, also for a course that had groups before.  Stated for
\* categories whose weights total exactly 100.
C28_SuccessMeansVerified ==
    op = "setup" /\ pc = "done" /\ result.status = "success"
        /\ SumSeq(cats) = Target =>
        /\ result.verified
        /\ Within(SumWeights(groups))

\* C29 as stated: fix "auto" (every request answered with success) returns a
\* result and does not raise, whatever the course holds, groups whose
\* weights are all 0 included.
C29_AutoFixNeverRaises ==
    AutoFixed => result.status # "raised"
====
